---------------------------- MODULE Spec2Model ----------------------------
(***************************************************************************)
(* A model of gg13, the userspace driver of the Logitech G13 gameboard:    *)
(* the device session (internal/device: New, Close, the backlight          *)
(* routine, the LCD writes), the driver loop of cmd/gg13 (g13, initialise) *)
(* and the interrupt handler that setCleanupHandler installs.              *)
(*                                                                         *)
(* Threads: 0 is the main goroutine (g13); s >= 1 is the goroutine that    *)
(* setCleanupHandler started for session s.  Close is not synchronised in  *)
(* the source, so it is modelled statement by statement: every read of a   *)
(* field of the session and every call on a handle is a step of its own.   *)
(* A Go panic (nil dereference, close of a closed channel) ends the        *)
(* process: proc becomes "crashed" and nothing runs afterwards.            *)
(***************************************************************************)
EXTENDS Naturals, Integers, Sequences, FiniteSets, Bags, TLC

\* ------------------------------------------------------------- bounds
\* Sessions the process may open in one run (the first one and the
\* reinitialisations).
MaxSessions == 2
\* Backlight routines one session may start.
MaxRoutines == 2

\* ---------------------------------------------------------- constants
errorCounterThreshold == 3
\* The read timeout New sets, in milliseconds.
DefaultTimeout == 100
\* consecutiveReadErrors is a uint8.
CounterModulus == 256

Main == 0
NoSession == 0
Sessions == 1..MaxSessions
Threads == {Main} \cup Sessions

\* The handles Close releases, in the order of its four guards.
ResOrder == <<"ctx", "dev", "cfg", "intf">>
Res == {"ctx", "dev", "cfg", "intf"}

VARIABLES
    proc,       \* "running" | "exit0" | "exit1" | "crashed"
    crash,      \* what panicked, once proc = "crashed"
    pc,         \* position of the main goroutine
    phase,      \* which call of New this is: "init" | "reinit" | "api"
    nsess,      \* sessions allocated so far; the newest is the one New builds
    sess,       \* the G13Device structs: which fields are non-nil
    usb,        \* the libusb resources behind each session
    rts,        \* the routines each session started: stop requests of each
    closef,     \* each thread's frame in Close / ResetBacklightColour
    closed,     \* sessions on which a Close has returned
    hst,        \* the interrupt handler of each session
    dev,        \* g13's variable dev (a session, or NoSession for nil)
    vkb,        \* g13's variable vkb (a keyboard instance, 0 for nil)
    vjs,        \* g13's variable vjs (a joystick instance, 0 for nil)
    kbState,    \* keyboard instances: "none" | "open" | "closed"
    jsState,    \* joystick instances: "none" | "open" | "closed"
    consecutiveReadErrors,
    lastRead,   \* outcome of the last ReadInput: "none"|"ok"|"timeout"|"err"
    it,         \* what the current loop iteration has done since its read
    hist        \* history of the run, for the properties

\* handleInput on its own (cmd/gg13): the configuration, the reports it was
\* given and the calls it made on the two sinks.
VARIABLES
    g13cfg,     \* the configuration: key mapping and stick mode
    reports,    \* the report words handleInput was called with, in order
    hpc,        \* position inside handleInput: "idle" | "keyboard"
    todo,       \* entries of GetKeyStates the range loop has not visited yet
    kbEvents,   \* per report, the bag of KeyDown/KeyUp calls on the keyboard
    stickEvents,\* the StickPosition calls on the joystick, in order
    faulted     \* sinks ("key", "stick") whose call failed in this report

\* SetLCD on its own (internal/device/lcd.go).
VARIABLES
    img,        \* the frame passed to SetLCD: bounds and non-white pixels
    vbitmap,    \* the buffer imageToG13Bytes built
    writes,     \* the bulk writes on the output endpoint, in order
    lcdpc       \* "call" | "write" | "nil" | "err"

\* The backlight routine on its own (internal/device/routine.go, lcd.go).
VARIABLES
    task,       \* the routines newRoutine made: channel, tick, goroutine
    held,       \* d.routines.colour: a routine, or 0 for nil
    handle,     \* d.dev: "open" | "closed" (released and set to nil)
    cpc,        \* position of the client inside its call, or "idle"
    lastXfer,   \* the last backlight transfer sent: by a call or by a tick
    resetDone,  \* ResetBacklightColour or Close returned, no call since
    ticks       \* ticks delivered so far

driverVars == <<proc, crash, pc, phase, nsess, sess, usb, rts, closef, closed,
                hst, dev, vkb, vjs, kbState, jsState, consecutiveReadErrors,
                lastRead, it, hist>>
inputVars == <<g13cfg, reports, hpc, todo, kbEvents, stickEvents, faulted>>
lcdVars == <<img, vbitmap, writes, lcdpc>>
taskVars == <<task, held, handle, cpc, lastXfer, resetDone, ticks>>
unitVars == <<inputVars, lcdVars, taskVars>>

vars == <<driverVars, inputVars, lcdVars, taskVars>>

devVars == <<sess, usb, rts, closed>>
sinkVars == <<vkb, vjs, kbState, jsState>>
loopVars == <<consecutiveReadErrors, lastRead, it>>

\* ------------------------------------------------------ initial values
\* d := G13Device{}
ZeroDevice ==
    [ctx |-> FALSE, dev |-> FALSE, cfg |-> FALSE, intf |-> FALSE,
     iep |-> FALSE, oep |-> FALSE, colour |-> 0, timeout |-> 0]

\* The libusb resources of a session: those acquired, how often each was
\* released, and the releases in the order they were made.
ZeroUsb == [acq |-> {}, rel |-> [r \in Res |-> 0], log |-> <<>>]

NoCrash == [kind |-> "none", thread |-> Main, site |-> "none",
            self |-> NoSession, caller |-> "none"]

IdleFrame ==
    [pc |-> "idle", self |-> NoSession, regs |-> {}, i |-> 0, ret |-> "none",
     top |-> "none", caller |-> "none", ops |-> 0, after |-> FALSE,
     fresh |-> FALSE]

ZeroIter == [c0 |-> 0, reported |-> FALSE, slept |-> FALSE, delivered |-> FALSE]

ZeroHist == [reinitStarted |-> FALSE, reinitFailed |-> FALSE,
             vjsBefore |-> 0, reinitDone |-> FALSE]

InitCommon ==
    /\ proc = "running"
    /\ crash = NoCrash
    /\ nsess = 0
    /\ sess = [s \in Sessions |-> ZeroDevice]
    /\ usb = [s \in Sessions |-> ZeroUsb]
    /\ rts = [s \in Sessions |-> <<>>]
    /\ closef = [t \in Threads |-> IdleFrame]
    /\ closed = {}
    /\ hst = [s \in Sessions |-> "none"]
    /\ dev = NoSession
    /\ vkb = 0
    /\ vjs = 0
    /\ kbState = [k \in Sessions |-> "none"]
    /\ jsState = [k \in Sessions |-> "none"]
    /\ consecutiveReadErrors = 0
    /\ lastRead = "none"
    /\ it = ZeroIter
    /\ hist = ZeroHist

\* Nothing has called handleInput.
InputIdle ==
    /\ g13cfg = [mapping |-> <<>>, joystick |-> FALSE]
    /\ reports = <<>>
    /\ hpc = "idle"
    /\ todo = {}
    /\ kbEvents = <<>>
    /\ stickEvents = <<>>
    /\ faulted = {}

NoImage == [min |-> <<0, 0>>, max |-> <<0, 0>>, pix |-> <<>>]

\* Nothing has called SetLCD.
LcdIdle ==
    /\ img = NoImage
    /\ vbitmap = <<>>
    /\ writes = <<>>
    /\ lcdpc = "idle"

\* No session with a backlight routine is under observation.
TaskIdle ==
    /\ task = <<>>
    /\ held = 0
    /\ handle = "none"
    /\ cpc = "idle"
    /\ lastXfer = "none"
    /\ resetDone = FALSE
    /\ ticks = 0

\* g13 after config.NewFromFile succeeded: about to call initialise.
Init ==
    /\ InitCommon
    /\ pc = "new_ctx"
    /\ phase = "init"
    /\ InputIdle
    /\ LcdIdle
    /\ TaskIdle

\* A panic: the runtime ends the process.
Panic(kind, t, site, s, caller) ==
    /\ proc' = "crashed"
    /\ crash' = [kind |-> kind, thread |-> t, site |-> site, self |-> s,
                 caller |-> caller]

NoPanic == UNCHANGED <<proc, crash>>


\* --------------------------------------------------------------- Close
\* device.go:112-159, with ResetBacklightColour (lcd.go:75-82), routine.stop
\* (routine.go:33-35), setBacklightColour (lcd.go:39-51) and ResetLCD
\* (lcd.go:105-116), which Close calls.
\*
\* A call is a frame f (the statement the thread is at, f.pc: entry, rbl,
\* stop, clr, ctl, lcd, guard, release, clear, ret, and the deferred functions
\* registered so far) working on a session: its struct d, its libusb
\* resources u and its routines rs.  Each statement is a function from such a
\* context to the next; a panic is recorded in the context.  The outcome of a
\* transfer or of a release (done or an error) changes nothing here: Close
\* prints the error and goes on (device.go:118-123, 128-130, 137-139, 146-148).

Context(f, d, u, rs) ==
    [f |-> f, d |-> d, u |-> u, rs |-> rs, panic |-> "none", site |-> "none"]

Panicked(c, kind, site) == [c EXCEPT !.panic = kind, !.site = site]

\* A call of d.Close() (top = "Close") or d.ResetBacklightColour() on session
\* s; ret is where the main goroutine goes on afterwards.
NewFrame(s, top, ret, caller) ==
    [pc |-> IF top = "Close" THEN "entry" ELSE "rbl",
     self |-> s, regs |-> {}, i |-> 0, ret |-> ret, top |-> top,
     caller |-> caller, ops |-> 0,
     after |-> s \in closed,
     fresh |-> IF s = NoSession THEN TRUE
               ELSE \A r \in Res \cup {"iep", "oep"} : ~sess[s][r]]

\* The deferred function that runs next, given the ones registered and the
\* index of the one that just ran (5 when none has run): deferred functions
\* run last-registered first.
NextDefer(regs, below) ==
    LET left == {j \in 1..4 : j < below /\ ResOrder[j] \in regs}
    IN  IF left = {} THEN 0
        ELSE CHOOSE j \in left : \A k \in left : k <= j

AfterDefer(f, below) ==
    LET j == NextDefer(f.regs, below)
    IN  IF j = 0 THEN [f EXCEPT !.pc = "ret", !.i = 0]
        ELSE [f EXCEPT !.pc = "release", !.i = j]

\* device.go:117   if d.dev != nil { reset backlight and LCD }
NeedsReset(d) == d.dev

\* device.go:126,135,144,153   if d.<handle> != nil { defer ... }
GuardHolds(d, r) == d[r]

\* device.go:131,140,149,156   d.<handle> = nil
ClearedField_Kept(d, r) == d
ClearedField(d, r) == [d EXCEPT ![r] = FALSE]

\* device.go:113-117   if d == nil { return }; if d.dev != nil { ... }
CloseEntry(c) ==
    [c EXCEPT !.f = IF @.self = NoSession THEN [@ EXCEPT !.pc = "ret"]
                    ELSE IF NeedsReset(c.d) THEN [@ EXCEPT !.pc = "rbl"]
                    ELSE [@ EXCEPT !.pc = "guard", !.i = 1]]

\* lcd.go:76   if d.routines.colour != nil
ResetBacklightColourCheck(c) ==
    [c EXCEPT !.f.pc = IF c.d.colour # 0 THEN "stop" ELSE "ctl"]

\* routine.go:33-35   close(r.stopChan): one more stop request on routine k.
stop(rs, k) == [rs EXCEPT ![k] = @ + 1]

\* lcd.go:77   d.routines.colour.stop(): on a nil *routine (the field was
\* cleared since the check) a nil dereference; on a routine that was stopped
\* already, the close of a closed channel.
RoutineStop(c) ==
    LET k == c.d.colour
    IN  IF k = 0 THEN Panicked(c, "nil_dereference", "colour.stop")
        ELSE IF c.rs[k] >= 1
        THEN Panicked([c EXCEPT !.rs = stop(@, k)],
                      "close_of_closed_channel", "colour.stop")
        ELSE [c EXCEPT !.rs = stop(@, k), !.f.pc = "clr", !.f.ops = @ + 1]

\* lcd.go:78   d.routines.colour = nil
RoutineClear(c) == [c EXCEPT !.d.colour = 0, !.f.pc = "ctl"]

\* lcd.go:81 and 39-51   d.setBacklightColour(0, 0, 0): d.dev.Control(...).
ResetBacklightTransfer(c) ==
    IF ~c.d.dev THEN Panicked(c, "nil_dereference", "dev.Control")
    ELSE [c EXCEPT !.f.pc = IF c.f.top = "Close" THEN "lcd" ELSE "ret",
                   !.f.ops = @ + 1]

\* lcd.go:105-116   d.oep.Write(blank)
ResetLCD(c) ==
    IF ~c.d.oep THEN Panicked(c, "nil_dereference", "oep.Write")
    ELSE [c EXCEPT !.f.pc = "guard", !.f.i = 1, !.f.ops = @ + 1]

\* device.go:126,135,144,153   one of the four guards: it registers a deferred
\* function when the handle is non-nil.
CloseGuard(c) ==
    LET r == ResOrder[c.f.i]
        g == [c.f EXCEPT !.regs = IF GuardHolds(c.d, r) THEN @ \cup {r} ELSE @]
    IN  [c EXCEPT !.f = IF c.f.i < 4 THEN [g EXCEPT !.i = @ + 1]
                        ELSE AfterDefer(g, 5)]

\* device.go:128,137,146,155   d.<handle>.Close() inside a deferred function;
\* on a field another Close has cleared since the guard, a nil dereference.
CloseDeferRelease(c) ==
    LET r == ResOrder[c.f.i]
    IN  IF ~c.d[r] THEN Panicked(c, "nil_dereference", "handle.Close")
        ELSE [c EXCEPT !.u.rel[r] = @ + 1, !.u.log = Append(@, r),
                       !.f.pc = "clear", !.f.ops = @ + 1]

\* device.go:131,140,149,156   d.<handle> = nil, then the next deferred function.
CloseDeferClear(c) ==
    [c EXCEPT !.d = ClearedField(@, ResOrder[c.f.i]),
              !.f = AfterDefer(@, c.f.i)]

\* The statement the frame is at.
Statement(c) ==
    CASE c.f.pc = "entry"   -> CloseEntry(c)
      [] c.f.pc = "rbl"     -> ResetBacklightColourCheck(c)
      [] c.f.pc = "stop"    -> RoutineStop(c)
      [] c.f.pc = "clr"     -> RoutineClear(c)
      [] c.f.pc = "ctl"     -> ResetBacklightTransfer(c)
      [] c.f.pc = "lcd"     -> ResetLCD(c)
      [] c.f.pc = "guard"   -> CloseGuard(c)
      [] c.f.pc = "release" -> CloseDeferRelease(c)
      [] c.f.pc = "clear"   -> CloseDeferClear(c)

\* The call run to its return or to its panic: the statements one after the
\* other, each from the context its predecessor left (from is that context's
\* value).
RECURSIVE RunCall(_)
RunCall(from) ==
    CHOOSE r \in {IF c.panic # "none" \/ c.f.pc = "ret" THEN c
                  ELSE RunCall(Statement(c)) : c \in {from}} : TRUE

Frame(t) == closef[t]

\* Session s is touched by no thread but t: the main goroutine touches the
\* session it is building or initialising and the one in dev; the handler of
\* s touches s once setCleanupHandler has started it.
MainUses(s) ==
    \/ dev = s
    \/ closef[Main].self = s /\ closef[Main].pc # "idle"
    \/ nsess = s /\ pc \in {"new_open", "new_setup", "new_ok", "kb_new",
                            "js_new", "bl_set", "lcd_set", "init_ok", "api",
                            "api_err"}

Private(t, s) ==
    \/ s = NoSession
    \/ t = Main /\ hst[s] = "none"
    \/ t # Main /\ ~MainUses(s)

\* The statements of a call on a session private to the caller read and
\* write nothing another thread reads or writes: they commute with every
\* step of the other threads.  Such a call is therefore taken in one step,
\* run to its return or its panic, and before the other threads go on; a call
\* on a shared session is taken statement by statement, in every
\* interleaving.
Local(t) == closef[t].pc # "idle" /\ Private(t, closef[t].self)

Turn(t) ==
    /\ proc = "running"
    /\ \A u \in Threads : Local(u) => t <= u

Quiet ==
    /\ proc = "running"
    /\ \A u \in Threads : ~Local(u)

\* The context of a frame on session s.
ContextOf(f) ==
    IF f.self = NoSession THEN Context(f, ZeroDevice, ZeroUsb, <<>>)
    ELSE Context(f, sess[f.self], usb[f.self], rts[f.self])

\* The state after thread t's call reached context c.
Becomes(t, c) ==
    LET s == c.f.self
    IN  /\ closef' = [closef EXCEPT ![t] = c.f]
        /\ IF s = NoSession THEN UNCHANGED <<sess, usb, rts>>
           ELSE /\ sess' = [sess EXCEPT ![s] = c.d]
                /\ usb' = [usb EXCEPT ![s] = c.u]
                /\ rts' = [rts EXCEPT ![s] = c.rs]
        /\ IF c.panic = "none" THEN UNCHANGED <<proc, crash>>
           ELSE /\ proc' = "crashed"
                /\ crash' = [kind |-> c.panic, thread |-> t, site |-> c.site,
                             self |-> s, caller |-> c.f.caller]

\* Thread t calls Close or ResetBacklightColour on the session of context c.
CallsOn(t, c) ==
    \E n \in {IF Private(t, c.f.self) THEN RunCall(c) ELSE c} : Becomes(t, n)

Calls(t, s, top, ret, caller) ==
    CallsOn(t, ContextOf(NewFrame(s, top, ret, caller)))

\* One statement of thread t's call.
CloseStep(t) ==
    /\ Turn(t)
    /\ Frame(t).pc \notin {"idle", "ret"}
    /\ \E n \in {IF Local(t) THEN RunCall(ContextOf(Frame(t)))
                 ELSE Statement(ContextOf(Frame(t)))} : Becomes(t, n)
    /\ UNCHANGED <<pc, phase, nsess, closed, hst, dev, sinkVars, loopVars, hist>>
    /\ UNCHANGED unitVars

\* The call returns: the main goroutine goes on at f.ret; a handler goes on
\* to os.Exit (part_000:38-41).
CloseReturn(t) ==
    /\ Turn(t)
    /\ Frame(t).pc = "ret"
    /\ LET f == Frame(t)
       IN  /\ closed' = IF f.top = "Close" /\ f.self # NoSession
                        THEN closed \cup {f.self} ELSE closed
           /\ closef' = [closef EXCEPT ![t] = IdleFrame]
           /\ IF t = Main
              THEN pc' = f.ret /\ UNCHANGED hst
              ELSE hst' = [hst EXCEPT ![t] = "exit"] /\ UNCHANGED pc
    /\ NoPanic
    /\ UNCHANGED <<phase, nsess, sess, usb, rts, dev, sinkVars, loopVars, hist>>
    /\ UNCHANGED unitVars

\* A call of Close or ResetBacklightColour by the main goroutine.
MainCalls(s, top, ret, caller) ==
    /\ Calls(Main, s, top, ret, caller)
    /\ pc' = "in_call"

\* ----------------------------------------------------------------- New
\* device.go:51-110.  The session being built is the newest one, nsess; no
\* other thread has it before New returns.

\* device.go:54   d := G13Device{}; the context of line 52 stays in the local
\* variable ctx and is never stored in d.ctx.
NewDevice == ZeroDevice

\* device.go:52-54
NewContext ==
    /\ pc = "new_ctx" /\ Turn(Main)
    /\ nsess < MaxSessions
    /\ nsess' = nsess + 1
    /\ sess' = [sess EXCEPT ![nsess + 1] = NewDevice]
    /\ usb' = [usb EXCEPT ![nsess + 1].acq = {"ctx"}]
    /\ pc' = "new_open"
    /\ NoPanic
    /\ UNCHANGED <<phase, rts, closef, closed, hst, dev, sinkVars, loopVars, hist>>
    /\ UNCHANGED unitVars

\* device.go:71-105   the five steps after the device is open, in order: the
\* field each stores on success ("" for none) and the libusb resource it
\* acquires.
NewSteps ==
    <<[name |-> "config",      field |-> "cfg",  acq |-> {"cfg"}],
      [name |-> "auto_detach", field |-> "",     acq |-> {}],
      [name |-> "interface",   field |-> "intf", acq |-> {"intf"}],
      [name |-> "in_endpoint", field |-> "iep",  acq |-> {}],
      [name |-> "out_endpoint", field |-> "oep", acq |-> {}]>>

\* The struct and the resources after the first n of these steps succeeded.
RECURSIVE AfterSteps(_, _)
AfterSteps(du, n) ==
    IF n = 0 THEN du
    ELSE LET p == AfterSteps(du, n - 1)
             st == NewSteps[n]
         IN  [d |-> IF st.field = "" THEN p.d ELSE [p.d EXCEPT ![st.field] = TRUE],
              u |-> [p.u EXCEPT !.acq = @ \cup st.acq]]

\* device.go:60, 73, 79, 85, 92, 102   New fails on session s left as d, u:
\* d.Close(), then the error.
NewFails(s, d, u) ==
    /\ CallsOn(Main, Context(NewFrame(s, "Close", "new_err", "New"),
                             d, u, rts[s]))
    /\ pc' = "in_call"

\* device.go:56-70   the poll for the device: an error closes d and fails; no
\* device yet sleeps 3 s and polls again; a device is stored in d.dev.
NewOpenDevice ==
    /\ pc = "new_open" /\ Turn(Main)
    /\ \E o \in {"err", "absent", "found"} :
         \/ /\ o = "err"
            /\ NewFails(nsess, sess[nsess], usb[nsess])
         \/ /\ o = "absent"
            /\ UNCHANGED <<proc, crash, pc, closef, sess, usb, rts>>
         \/ /\ o = "found"
            /\ sess' = [sess EXCEPT ![nsess].dev = TRUE]
            /\ usb' = [usb EXCEPT ![nsess].acq = @ \cup {"dev"}]
            /\ pc' = "new_setup"
            /\ UNCHANGED <<proc, crash, closef, rts>>
    /\ UNCHANGED <<phase, nsess, closed, hst, dev, sinkVars, loopVars, hist>>
    /\ UNCHANGED unitVars

\* device.go:71-109   the rest of New: every step succeeds and the session is
\* returned, or step k fails after the k - 1 before it succeeded.
NewSetup ==
    /\ pc = "new_setup" /\ Turn(Main)
    /\ \E k \in 0..Len(NewSteps) :
         IF k = 0
         THEN LET a == AfterSteps([d |-> sess[nsess], u |-> usb[nsess]],
                                  Len(NewSteps))
              IN  /\ sess' = [sess EXCEPT ![nsess] =
                                      [a.d EXCEPT !.timeout = DefaultTimeout]]
                  /\ usb' = [usb EXCEPT ![nsess] = a.u]
                  /\ pc' = "new_ok"
                  /\ UNCHANGED <<proc, crash, closef, rts>>
         ELSE LET a == AfterSteps([d |-> sess[nsess], u |-> usb[nsess]], k - 1)
              IN  NewFails(nsess, a.d, a.u)
    /\ UNCHANGED <<phase, nsess, closed, hst, dev, sinkVars, loopVars, hist>>
    /\ UNCHANGED unitVars

\* ------------------------------------------------- SetBacklightColour
\* Outcomes of a transfer: done, an error, or fewer bytes than sent.
TransferOutcomes == {"ok", "err", "short"}

\* routine.go:13-30   newRoutine: one more routine, with no stop request yet.
newRoutine(rs) == Append(rs, 0)

\* lcd.go:56-71   the session and its routines after SetBacklightColour whose
\* first transfer succeeded: a new routine is stored in d.routines.colour;
\* the routine that was there is not stopped.
SetColourRoutines(d, rs) == newRoutine(rs)

\* lcd.go:59-61   the routines after SetBacklightColour whose first transfer
\* failed: the error is returned before newRoutine is reached.
FailedColourRoutines_Started(d, rs) == newRoutine(rs)
FailedColourRoutines(d, rs) == rs

\* The routines of session s that still run: started and never stopped.
ActiveRoutines(s) == {c \in 1..Len(rts[s]) : rts[s][c] = 0}

\* lcd.go:56-71 with 39-51.  d.dev.Control on a nil d.dev panics.
SetBacklightColour(s, okPc, errPc) ==
    IF ~sess[s].dev
    THEN /\ Panic("nil_dereference", Main, "dev.Control", s, "SetBacklightColour")
         /\ UNCHANGED <<pc, sess, rts>>
    ELSE /\ NoPanic
         /\ \E o \in TransferOutcomes :
              IF o = "ok"
              THEN /\ Len(rts[s]) < MaxRoutines
                   /\ rts' = [rts EXCEPT ![s] = SetColourRoutines(sess[s], @)]
                   /\ sess' = [sess EXCEPT ![s].colour = Len(rts[s]) + 1]
                   /\ pc' = okPc
              ELSE /\ rts' = [rts EXCEPT ![s] = FailedColourRoutines(sess[s], @)]
                   /\ pc' = errPc
                   /\ UNCHANGED sess


\* ---------------------------------------------------------- initialise
\* part_000:45-77.  The instances keyboard.New and joystick.New return are
\* numbered like the session of the same call.

\* part_000:46-49   device.New failed.
InitialiseDeviceFailed ==
    /\ pc = "new_err" /\ Turn(Main) /\ phase \in {"init", "reinit"}
    /\ pc' = "init_err"
    /\ NoPanic
    /\ UNCHANGED <<phase, nsess, devVars, closef, hst, dev, sinkVars, loopVars, hist>>
    /\ UNCHANGED unitVars

\* part_000:50 and 30-43   setCleanupHandler(dev.Close): one more goroutine,
\* waiting for the interrupt, that will close this session.
setCleanupHandler ==
    /\ pc = "new_ok" /\ Turn(Main) /\ phase \in {"init", "reinit"}
    /\ hst' = [hst EXCEPT ![nsess] = "waiting"]
    /\ pc' = "kb_new"
    /\ NoPanic
    /\ UNCHANGED <<phase, nsess, devVars, closef, dev, sinkVars, loopVars, hist>>
    /\ UNCHANGED unitVars

\* part_000:52-55
KeyboardNew ==
    /\ pc = "kb_new" /\ Turn(Main)
    /\ \E ok \in BOOLEAN :
         IF ok THEN /\ kbState' = [kbState EXCEPT ![nsess] = "open"]
                    /\ pc' = "js_new"
         ELSE /\ pc' = "init_err"
              /\ UNCHANGED kbState
    /\ NoPanic
    /\ UNCHANGED <<phase, nsess, devVars, closef, hst, dev, vkb, vjs, jsState,
                   loopVars, hist>>
    /\ UNCHANGED unitVars

\* part_000:57-60
JoystickNew ==
    /\ pc = "js_new" /\ Turn(Main)
    /\ \E ok \in BOOLEAN :
         IF ok THEN /\ jsState' = [jsState EXCEPT ![nsess] = "open"]
                    /\ pc' = "bl_set"
         ELSE /\ pc' = "init_err"
              /\ UNCHANGED jsState
    /\ NoPanic
    /\ UNCHANGED <<phase, nsess, devVars, closef, hst, dev, vkb, vjs, kbState,
                   loopVars, hist>>
    /\ UNCHANGED unitVars

\* part_000:62-65
InitialiseBacklight ==
    /\ pc = "bl_set" /\ Turn(Main)
    /\ SetBacklightColour(nsess, "lcd_set", "init_err")
    /\ UNCHANGED <<phase, nsess, usb, closef, closed, hst, dev, sinkVars,
                   loopVars, hist>>
    /\ UNCHANGED unitVars

\* part_000:67-75   no image configured; the image cannot be loaded; SetLCD
\* (lcd.go:84-103) writes it or fails.
InitialiseLCD ==
    /\ pc = "lcd_set" /\ Turn(Main)
    /\ \E o \in {"no_image", "image_err", "write_ok", "write_err"} :
         pc' = IF o \in {"no_image", "write_ok"} THEN "init_ok" ELSE "init_err"
    /\ NoPanic
    /\ UNCHANGED <<phase, nsess, devVars, closef, hst, dev, sinkVars, loopVars, hist>>
    /\ UNCHANGED unitVars

\* part_000:76, then 121-134 (at INIT) or 153-159 (at REINITIALIZING): g13
\* takes the three values initialise returned and starts reading with the
\* counter at 0.
InitialiseReturned ==
    /\ pc = "init_ok" /\ Turn(Main)
    /\ dev' = nsess
    /\ vkb' = nsess
    /\ vjs' = nsess
    /\ consecutiveReadErrors' = 0
    /\ hist' = [hist EXCEPT !.reinitDone = (phase = "reinit")]
    /\ pc' = "read"
    /\ NoPanic
    /\ UNCHANGED <<phase, nsess, devVars, closef, hst, kbState, jsState,
                   lastRead, it>>
    /\ UNCHANGED unitVars

\* part_000:48,54,59,64,70,73: initialise returns nil, nil, nil, err.  At INIT
\* (122-124) g13 returns the error before its defer is registered and main
\* exits with status 1.  At REINITIALIZING (153-156) the nils are assigned to
\* dev, vkb and vjs and g13 returns the error through its deferred function.
InitialiseFailed ==
    /\ pc = "init_err" /\ Turn(Main)
    /\ IF phase = "init"
       THEN /\ proc' = "exit1"
            /\ UNCHANGED <<crash, pc, dev, sinkVars, hist>>
       ELSE /\ dev' = NoSession
            /\ vkb' = 0
            /\ vjs' = 0
            /\ hist' = [hist EXCEPT !.reinitFailed = TRUE]
            /\ pc' = "g13_defer"
            /\ UNCHANGED <<proc, crash, kbState, jsState>>
    /\ UNCHANGED <<phase, nsess, devVars, closef, hst, loopVars>>
    /\ UNCHANGED unitVars

\* part_000:126-131   g13's deferred function: dev.Close(), then vkb.Close().
\* A method call on a nil interface value panics.
G13Deferred ==
    /\ pc \in {"g13_defer", "g13_defer_kb"} /\ Turn(Main)
    /\ IF pc = "g13_defer"
       THEN IF dev = NoSession
            THEN /\ Panic("nil_dereference", Main, "g13.defer dev.Close",
                          NoSession, "g13")
                 /\ UNCHANGED <<pc, closef, kbState, sess, usb, rts>>
            ELSE /\ MainCalls(dev, "Close", "g13_defer_kb", "g13")
                 /\ UNCHANGED kbState
       ELSE IF vkb = 0
            THEN /\ Panic("nil_dereference", Main, "g13.defer vkb.Close",
                          NoSession, "g13")
                 /\ UNCHANGED <<pc, closef, kbState, sess, usb, rts>>
            ELSE /\ kbState' = [kbState EXCEPT ![vkb] = "closed"]
                 /\ proc' = "exit1"
                 /\ UNCHANGED <<crash, pc, closef, sess, usb, rts>>
    /\ UNCHANGED <<phase, nsess, closed, hst, dev, vkb, vjs, jsState,
                   loopVars, hist>>
    /\ UNCHANGED unitVars


\* ------------------------------------------------------ the driver loop
\* part_000:135-171

ReadOutcomes == {"ok", "timeout", "err"}

\* device.go:161-167 and 172-180   ReadInput calls ReadBytes: a nil input
\* endpoint is an error at once, otherwise the read is submitted with the
\* session's timeout.
ReadBegin ==
    /\ pc = "read" /\ Turn(Main)
    /\ it' = [c0 |-> consecutiveReadErrors, reported |-> FALSE,
              slept |-> FALSE, delivered |-> FALSE]
    /\ IF ~sess[dev].iep
       THEN lastRead' = "err" /\ pc' = "got"
       ELSE pc' = "reading" /\ UNCHANGED lastRead
    /\ hist' = [hist EXCEPT !.reinitDone = FALSE]
    /\ NoPanic
    /\ UNCHANGED <<phase, nsess, devVars, closef, hst, dev, sinkVars,
                   consecutiveReadErrors>>
    /\ UNCHANGED unitVars

\* The input endpoint of session s works on the interface and the device
\* handle: it is live while neither has been released.
EndpointLive(s) == usb[s].rel["intf"] = 0 /\ usb[s].rel["dev"] = 0

\* device.go:181-188   ReadContext returns: the packet, gousb.TransferCancelled
\* (reported as ErrReadTimeout) or another error (wrapped).  A transfer on an
\* endpoint whose interface or device handle has been released works on freed
\* libusb memory: it may also end the process.
ReadEnd ==
    /\ pc = "reading" /\ Turn(Main)
    /\ \/ /\ \E o \in ReadOutcomes : lastRead' = o
          /\ pc' = "got"
          /\ NoPanic
       \/ /\ ~EndpointLive(dev)
          /\ Panic("use_after_release", Main, "iep.ReadContext", dev, "g13")
          /\ UNCHANGED <<pc, lastRead>>
    /\ UNCHANGED <<phase, nsess, devVars, closef, hst, dev, sinkVars,
                   consecutiveReadErrors, it, hist>>
    /\ UNCHANGED unitVars

\* part_000:137   errors.Is(err, device.ErrReadTimeout)
IsTimeout_Never(o) == FALSE
IsTimeout(o) == o = "timeout"

\* part_000:142   consecutiveReadErrors++ on a uint8
Incremented(c) == (c + 1) % CounterModulus

\* part_000:144   consecutiveReadErrors >= errorCounterThreshold
ReachedThreshold_Late(c) == c > errorCounterThreshold
ReachedThreshold(c) == c >= errorCounterThreshold

\* part_000:168   read successful - reset error counter
CounterAfterSuccess_Kept(c) == c
CounterAfterSuccess(c) == 0

\* part_000:137-139   continue
LoopTimeout ==
    /\ pc = "got" /\ Turn(Main)
    /\ IsTimeout(lastRead)
    /\ pc' = "read"
    /\ NoPanic
    /\ UNCHANGED <<phase, nsess, devVars, closef, hst, dev, sinkVars, loopVars, hist>>
    /\ UNCHANGED unitVars

\* part_000:140-144 and 162-164   the error is printed and counted; below the
\* threshold the loop sleeps 500 ms (LoopBackoff) and reads again.
LoopError ==
    /\ pc = "got" /\ Turn(Main)
    /\ ~IsTimeout(lastRead) /\ lastRead # "ok"
    /\ consecutiveReadErrors' = Incremented(consecutiveReadErrors)
    /\ it' = [it EXCEPT !.reported = TRUE]
    /\ pc' = IF ReachedThreshold(consecutiveReadErrors') THEN "reinit" ELSE "backoff"
    /\ NoPanic
    /\ UNCHANGED <<phase, nsess, devVars, closef, hst, dev, sinkVars, lastRead, hist>>
    /\ UNCHANGED unitVars

\* part_000:163-164   time.Sleep(500 * time.Millisecond); continue
LoopBackoff ==
    /\ pc = "backoff" /\ Turn(Main)
    /\ it' = [it EXCEPT !.slept = TRUE]
    /\ pc' = "read"
    /\ NoPanic
    /\ UNCHANGED <<phase, nsess, devVars, closef, hst, dev, sinkVars,
                   consecutiveReadErrors, lastRead, hist>>
    /\ UNCHANGED unitVars

\* part_000:167-170   the counter is reset and the report is handed to the
\* sinks (handleInput).
LoopSuccess ==
    /\ pc = "got" /\ Turn(Main)
    /\ ~IsTimeout(lastRead) /\ lastRead = "ok"
    /\ consecutiveReadErrors' = CounterAfterSuccess(consecutiveReadErrors)
    /\ it' = [it EXCEPT !.delivered = TRUE]
    /\ pc' = "read"
    /\ NoPanic
    /\ UNCHANGED <<phase, nsess, devVars, closef, hst, dev, sinkVars, lastRead, hist>>
    /\ UNCHANGED unitVars

\* part_000:145-146   "Reinitialising device"; dev.Close()
Reinitialise ==
    /\ pc = "reinit" /\ Turn(Main)
    /\ MainCalls(dev, "Close", "reinit_closed", "g13")
    /\ hist' = [hist EXCEPT !.reinitStarted = TRUE, !.vjsBefore = vjs,
                            !.reinitDone = FALSE]
    /\ UNCHANGED <<phase, nsess, closed, hst, dev, sinkVars, loopVars>>
    /\ UNCHANGED unitVars

\* part_000:147-153   dev = nil; vkb.Close(); then initialise again.  vjs is
\* not closed.
ReinitialiseSinks ==
    /\ pc = "reinit_closed" /\ Turn(Main)
    /\ dev' = NoSession
    /\ kbState' = [kbState EXCEPT ![vkb] = "closed"]
    /\ phase' = "reinit"
    /\ pc' = "new_ctx"
    /\ NoPanic
    /\ UNCHANGED <<nsess, devVars, closef, hst, vkb, vjs, jsState, loopVars, hist>>
    /\ UNCHANGED unitVars

\* ------------------------------------------------ the interrupt handler
\* part_000:30-43

\* os.Interrupt arrives: signal.Notify hands it to the channel of every
\* handler that is waiting.
Interrupt ==
    /\ Quiet
    /\ \E s \in Sessions : hst[s] = "waiting"
    /\ hst' = [s \in Sessions |-> IF hst[s] = "waiting" THEN "signalled" ELSE hst[s]]
    /\ NoPanic
    /\ UNCHANGED <<pc, phase, nsess, devVars, closef, dev, sinkVars, loopVars, hist>>
    /\ UNCHANGED unitVars

\* part_000:34-37   the handler of session s receives the signal and calls
\* cleanup(), which is that session's Close.
HandlerCleanup(s) ==
    /\ Turn(s) /\ hst[s] = "signalled"
    /\ hst' = [hst EXCEPT ![s] = "cleanup"]
    /\ Calls(s, s, "Close", "none", "handler")
    /\ UNCHANGED <<pc, phase, nsess, closed, dev, sinkVars, loopVars, hist>>
    /\ UNCHANGED unitVars

\* part_000:38-41   break; os.Exit(0)
HandlerExit(s) ==
    /\ Turn(s) /\ hst[s] = "exit"
    /\ proc' = "exit0"
    /\ UNCHANGED <<crash, pc, phase, nsess, devVars, closef, hst, dev, sinkVars,
                   loopVars, hist>>
    /\ UNCHANGED unitVars

\* ------------------------------------------------------ specifications
MainStep ==
    \/ NewContext
    \/ NewOpenDevice
    \/ NewSetup
    \/ InitialiseDeviceFailed
    \/ setCleanupHandler
    \/ KeyboardNew
    \/ JoystickNew
    \/ InitialiseBacklight
    \/ InitialiseLCD
    \/ InitialiseReturned
    \/ InitialiseFailed
    \/ G13Deferred
    \/ ReadBegin
    \/ ReadEnd
    \/ LoopTimeout
    \/ LoopError
    \/ LoopBackoff
    \/ LoopSuccess
    \/ Reinitialise
    \/ ReinitialiseSinks
    \/ CloseStep(Main)
    \/ CloseReturn(Main)

Next ==
    \/ MainStep
    \/ Interrupt
    \/ \E s \in Sessions : HandlerCleanup(s)
    \/ \E s \in Sessions : CloseStep(s)
    \/ \E s \in Sessions : CloseReturn(s)
    \/ \E s \in Sessions : HandlerExit(s)

\* The driver: g13 with its interrupt handlers.
Spec == Init /\ [][Next]_vars

HandlerStep ==
    \E s \in Sessions :
        HandlerCleanup(s) \/ CloseStep(s) \/ CloseReturn(s) \/ HandlerExit(s)

\* The driver under the Go scheduler: a goroutine that can run does run.  The
\* interrupt may or may not arrive.
FairSpec == Spec /\ WF_vars(MainStep) /\ WF_vars(HandlerStep)

\* ------------------------------------------------- a client of Device
\* The Device interface (device.go:25-33) under a sequential client: it opens
\* sessions with New and calls the methods of the one it holds, in any order.
\* No interrupt handler exists here, so every call is on a private session.

\* The client between two calls: after a call that returned no error, or
\* after one that returned an error.
ApiIdle == {"api", "api_err"}

ApiInit ==
    /\ InitCommon
    /\ pc = "new_ctx"
    /\ phase = "api"
    /\ InputIdle
    /\ LcdIdle
    /\ TaskIdle

\* device.go:109 or the error returns of New: the client holds the session,
\* or nothing.
ApiNewReturned ==
    /\ pc \in {"new_ok", "new_err"} /\ Turn(Main) /\ phase = "api"
    /\ dev' = IF pc = "new_ok" THEN nsess ELSE NoSession
    /\ pc' = "api"
    /\ NoPanic
    /\ UNCHANGED <<phase, nsess, devVars, closef, hst, sinkVars, loopVars, hist>>
    /\ UNCHANGED unitVars

\* device.go:51   another call of New
ApiNew ==
    /\ pc \in ApiIdle /\ Turn(Main)
    /\ nsess < MaxSessions
    /\ pc' = "new_ctx"
    /\ NoPanic
    /\ UNCHANGED <<phase, nsess, devVars, closef, hst, dev, sinkVars, loopVars, hist>>
    /\ UNCHANGED unitVars

\* device.go:112   d.Close() on the session held
ApiClose ==
    /\ pc \in ApiIdle /\ Turn(Main) /\ dev # NoSession
    /\ MainCalls(dev, "Close", "api", "client")
    /\ UNCHANGED <<phase, nsess, closed, hst, dev, sinkVars, loopVars, hist>>
    /\ UNCHANGED unitVars

\* device.go:112-115   Close on a nil *G13Device
ApiCloseNil ==
    /\ pc \in ApiIdle /\ Turn(Main)
    /\ MainCalls(NoSession, "Close", "api", "client")
    /\ UNCHANGED <<phase, nsess, closed, hst, dev, sinkVars, loopVars, hist>>
    /\ UNCHANGED unitVars

\* lcd.go:56   d.SetBacklightColour(r, g, b)
ApiSetBacklightColour ==
    /\ pc \in ApiIdle /\ Turn(Main) /\ dev # NoSession
    /\ SetBacklightColour(dev, "api", "api_err")
    /\ UNCHANGED <<phase, nsess, usb, closef, closed, hst, dev, sinkVars,
                   loopVars, hist>>
    /\ UNCHANGED unitVars

\* lcd.go:75   d.ResetBacklightColour()
ApiResetBacklightColour ==
    /\ pc \in ApiIdle /\ Turn(Main) /\ dev # NoSession
    /\ MainCalls(dev, "ResetBacklightColour", "api", "client")
    /\ UNCHANGED <<phase, nsess, closed, hst, dev, sinkVars, loopVars, hist>>
    /\ UNCHANGED unitVars

\* The durations a client passes to SetTimeout.
Timeouts == {DefaultTimeout, 2 * DefaultTimeout}

\* device.go:193   SetTimeout's only check: d == nil
TimeoutRefused(s) == s = NoSession

\* device.go:192-199   d.SetTimeout(dt) on the session held, or on nil
ApiSetTimeout ==
    /\ pc \in ApiIdle /\ Turn(Main)
    /\ \E dt \in Timeouts :
         IF TimeoutRefused(dev)
         THEN /\ pc' = "api_err"
              /\ UNCHANGED sess
         ELSE /\ sess' = [sess EXCEPT ![dev].timeout = dt]
              /\ pc' = "api"
    /\ NoPanic
    /\ UNCHANGED <<phase, nsess, usb, rts, closef, closed, hst, dev, sinkVars,
                   loopVars, hist>>
    /\ UNCHANGED unitVars

ApiNext ==
    \/ NewContext
    \/ NewOpenDevice
    \/ NewSetup
    \/ ApiNewReturned
    \/ ApiNew
    \/ ApiClose
    \/ ApiCloseNil
    \/ ApiSetBacklightColour
    \/ ApiResetBacklightColour
    \/ ApiSetTimeout
    \/ CloseReturn(Main)

ApiSpec == ApiInit /\ [][ApiNext]_vars


\* ------------------------------------------------------------ handleInput
\* The driver's translation of one report into sink calls, on its own: a
\* caller hands handleInput a configuration, two sinks and report words,
\* as the table tests of cmd/gg13 do.

\* Reports handleInput is given in one run.
MaxReports == 3

\* Three keys of the device (device.KeyBit): bit positions in the report.
KeyA == 24
KeyB == 25
KeyC == 26
KeyBits == {KeyA, KeyB, KeyC}

\* KeyBit.Uint64: the report word with only that bit set.
Uint64(k) == 2 ^ k

\* The stick bytes of a report word.
encodeStickPosition(x, y) == x * (2 ^ 8) + y * (2 ^ 16)

RECURSIVE KeysWord(_)
KeysWord(ks) ==
    IF ks = {} THEN 0
    ELSE LET k == CHOOSE e \in ks : TRUE IN Uint64(k) + KeysWord(ks \ {k})

\* A report with the keys ks held and the stick at rest.
KeyWord(ks) == KeysWord(ks) + encodeStickPosition(127, 127)

\* The report words the caller may pass: every combination of the three
\* keys with the stick centred, and one with the stick in a corner.
Reports ==
    {KeyWord(ks) : ks \in SUBSET KeyBits} \cup {encodeStickPosition(255, 0)}

\* The configurations: no key mapped, one, or two (KeyC is never mapped),
\* with the stick in joystick mode or not.
Mappings == {<<>>, KeyA :> 30, KeyA :> 30 @@ KeyB :> 48}
Configs == [mapping : Mappings, joystick : BOOLEAN]

Bit(w, b) == (w \div (2 ^ b)) % 2 = 1

\* config.GetKeyStates: for every mapped key, its key code and whether its
\* bit is set in the report.
GetKeyStates(cfg, w) ==
    [kbkey \in {cfg.mapping[k] : k \in DOMAIN cfg.mapping} |->
        \E k \in DOMAIN cfg.mapping : cfg.mapping[k] = kbkey /\ Bit(w, k)]

\* config.GetStickPosition: nil (here <<>>) unless the stick is in joystick
\* mode, else the two stick bytes.
GetStickPosition(cfg, w) ==
    IF cfg.joystick
    THEN <<(w \div (2 ^ 8)) % 256, (w \div (2 ^ 16)) % 256>>
    ELSE <<>>

\* StickPosition.UinputPosition: the position relative to the centre, in
\* units of 1/127.
UinputPosition(p) == <<p[1] - 127, p[2] - 127>>

\* handleKeyboard, the branch on isDown: KeyDown or KeyUp.
KeyCall_AlwaysDown(isDown) == "down"
KeyCall_Inverted(isDown) == IF isDown THEN "up" ELSE "down"
KeyCall(isDown) == IF isDown THEN "down" ELSE "up"

\* handleKeyboard after a failing KeyDown or KeyUp: the error is printed and
\* the range loop goes on with the remaining entries.
RemainingAfterFault_Abort(rest) == {}
RemainingAfterFault(rest) == rest

\* The caller starts with any configuration and has made no call yet.
InputInit ==
    /\ InitCommon
    /\ pc = "handle_input"
    /\ phase = "input"
    /\ g13cfg \in Configs
    /\ reports = <<>>
    /\ hpc = "idle"
    /\ todo = {}
    /\ kbEvents = <<>>
    /\ stickEvents = <<>>
    /\ faulted = {}
    /\ LcdIdle
    /\ TaskIdle

input == reports[Len(reports)]

\* A call of handleInput: handleKeyboard evaluates GetKeyStates once and
\* ranges over the result.
HandleInput ==
    /\ hpc = "idle" /\ Len(reports) < MaxReports
    /\ \E w \in Reports :
        /\ reports' = Append(reports, w)
        /\ todo' = DOMAIN GetKeyStates(g13cfg, w)
    /\ kbEvents' = Append(kbEvents, EmptyBag)
    /\ faulted' = {}
    /\ hpc' = "keyboard"
    /\ UNCHANGED <<g13cfg, stickEvents, driverVars, lcdVars, taskVars>>

\* One iteration of the range loop, in any order of the map: the call is
\* made and may return an error.
HandleKeyboard ==
    /\ hpc = "keyboard" /\ todo # {}
    /\ \E kbkey \in todo, ok \in BOOLEAN :
        LET isDown == GetKeyStates(g13cfg, input)[kbkey]
            ev == [action |-> KeyCall(isDown), code |-> kbkey]
        IN  /\ kbEvents' =
                  [kbEvents EXCEPT ![Len(kbEvents)] = @ (+) SetToBag({ev})]
            /\ faulted' = IF ok THEN faulted ELSE faulted \cup {"key"}
            /\ todo' = IF ok THEN todo \ {kbkey}
                       ELSE RemainingAfterFault(todo \ {kbkey})
    /\ UNCHANGED <<g13cfg, reports, hpc, stickEvents, driverVars, lcdVars, taskVars>>

\* handleJoystick, after handleKeyboard returned: one StickPosition call
\* unless GetStickPosition gave nil; its error is printed.
HandleJoystick ==
    /\ hpc = "keyboard" /\ todo = {}
    /\ LET stickPos == GetStickPosition(g13cfg, input)
       IN  IF stickPos # <<>>
           THEN \E ok \in BOOLEAN :
                   /\ stickEvents' = Append(stickEvents, UinputPosition(stickPos))
                   /\ faulted' = IF ok THEN faulted
                                 ELSE faulted \cup {"stick"}
           ELSE UNCHANGED <<stickEvents, faulted>>
    /\ hpc' = "idle"
    /\ UNCHANGED <<g13cfg, reports, todo, kbEvents, driverVars, lcdVars, taskVars>>

InputNext ==
    \/ HandleInput
    \/ HandleKeyboard
    \/ HandleJoystick

InputSpec == InputInit /\ [][InputNext]_vars

\* ------------------------------------------------------------------ SetLCD
\* SetLCD on its own, on a session whose output endpoint is open: a caller
\* hands it one frame.

LCDWidth == 160
LCDHeight == 43
LCDDataLength == 992
LCDImageStartIdx == 32
LCDMagicNumber == 3

\* Colours as color.Color.RGBA returns them: 16 bits a channel.
Colour(r, g, b) == [r |-> r, g |-> g, b |-> b]
White == Colour(65535, 65535, 65535)
Black == Colour(0, 0, 0)
Red == Colour(65535, 0, 0)
Grey == Colour(32896, 32896, 32896)
Dim == Colour(254, 254, 254)
Colours == {White, Black, Red, Grey, Dim}

Positions == (0..(LCDWidth - 1)) \X (0..(LCDHeight - 1))
Corners == {<<0, 0>>, <<LCDWidth - 1, LCDHeight - 1>>}

\* A frame: its bounds and the pixels it sets; every other pixel is white.
Image(min, max, pix) == [min |-> min, max |-> max, pix |-> pix]
LCDImage(pix) == Image(<<0, 0>>, <<LCDWidth, LCDHeight>>, pix)

\* Frames of the size of the LCD: one black pixel at any of the positions ps,
\* alone or with a black corner; one pixel of any colour at a few places; no
\* pixel at all.
ScanFrames(ps) ==
    {LCDImage(p :> Black) : p \in ps}
        \cup {LCDImage(p :> Black @@ q :> Black) : p \in ps, q \in Corners}
ColourFrames ==
    {LCDImage(p :> c) : p \in Corners \cup {<<8, 8>>}, c \in Colours}
        \cup {LCDImage(<<>>)}

\* Frames of other bounds: too small, too large, or not starting at 0,0.
OtherBounds ==
    {<<<<0, 0>>, <<LCDWidth - 1, LCDHeight>>>>,
     <<<<0, 0>>, <<LCDWidth, LCDHeight + 1>>>>,
     <<<<1, 0>>, <<LCDWidth, LCDHeight>>>>,
     <<<<0, 1>>, <<LCDWidth, LCDHeight>>>>,
     <<<<1, 1>>, <<LCDWidth + 1, LCDHeight + 1>>>>,
     <<<<0, 0>>, <<0, 0>>>>}
OtherFrames ==
    {Image(b[1], b[2], pix) : b \in OtherBounds, pix \in {<<>>, <<1, 1>> :> Black}}

Frames(ps) == ScanFrames(ps) \cup ColourFrames \cup OtherFrames

\* SetLCD's two checks of img.Bounds().
BoundsOk_SizeOnly(im) ==
    /\ im.max[1] - im.min[1] = LCDWidth
    /\ im.max[2] - im.min[2] = LCDHeight
BoundsOk(im) ==
    /\ ~(im.min[1] # 0 \/ im.min[2] # 0)
    /\ ~(im.max[1] # LCDWidth \/ im.max[2] # LCDHeight)

\* img.At(x, y).RGBA()
At(im, p) == IF p \in DOMAIN im.pix THEN im.pix[p] ELSE White

\* if r+g+b < 255*3
PixelOn(c) == c.r + c.g + c.b < 255 * 3

byteIdx_RowMajor(p) == (p[2] * LCDWidth + p[1]) \div 8
byteIdx(p) == (p[2] \div 8) * LCDWidth + p[1]
bitIdx(p) == p[2] % 8
onBit(p) == 2 ^ bitIdx(p)

BitSet(byte, i) == (byte \div (2 ^ i)) % 2 = 1

\* vbitmap[...] |= onBit, for a single bit.
Or(byte, bit) == IF (byte \div bit) % 2 = 1 THEN byte ELSE byte + bit

\* make([]uint8, LCDDataLength) with the magic number in front.
Blank == [i \in 0..(LCDDataLength - 1) |-> IF i = 0 THEN LCDMagicNumber ELSE 0]

\* The two loops of imageToG13Bytes over the positions ps.
RECURSIVE Flipped(_, _, _)
Flipped(bm, im, ps) ==
    IF ps = {} THEN bm
    ELSE LET p == CHOOSE e \in ps : TRUE
         IN  Flipped(IF PixelOn(At(im, p))
                     THEN [bm EXCEPT ![byteIdx(p) + LCDImageStartIdx] =
                                         Or(@, onBit(p))]
                     ELSE bm,
                     im, ps \ {p})

\* The loops visit every position below bounds.Max; a position the frame
\* does not set is white and fails the test, so only the others count.
imageToG13Bytes(im) ==
    Flipped(Blank, im,
            {p \in DOMAIN im.pix : p[1] < im.max[1] /\ p[2] < im.max[2]})

\* d.oep.Write(data): what it returns, for a buffer of len bytes.
WriteResults(len) ==
    {[n |-> len, err |-> FALSE], [n |-> 0, err |-> TRUE],
     [n |-> len - 1, err |-> FALSE], [n |-> 0, err |-> FALSE]}

DisplayInit ==
    /\ InitCommon
    /\ pc = "set_lcd"
    /\ phase = "lcd"
    /\ InputIdle
    /\ TaskIdle
    /\ img \in Frames(Positions)
    /\ vbitmap = <<>>
    /\ writes = <<>>
    /\ lcdpc = "call"

\* SetLCD up to the write: the bounds are checked, then the buffer is built.
SetLCD ==
    /\ lcdpc = "call"
    /\ IF BoundsOk(img)
       THEN /\ vbitmap' = imageToG13Bytes(img)
            /\ lcdpc' = "write"
       ELSE /\ lcdpc' = "err"
            /\ UNCHANGED vbitmap
    /\ UNCHANGED <<img, writes, driverVars, inputVars, taskVars>>

\* The bulk write and the two checks of its result.
OepWrite ==
    /\ lcdpc = "write"
    /\ \E res \in WriteResults(Cardinality(DOMAIN vbitmap)) :
        /\ writes' = Append(writes, [len |-> Cardinality(DOMAIN vbitmap),
                                     n |-> res.n, err |-> res.err])
        /\ lcdpc' = IF res.err \/ res.n # Cardinality(DOMAIN vbitmap)
                    THEN "err" ELSE "nil"
    /\ UNCHANGED <<img, vbitmap, driverVars, inputVars, taskVars>>

DisplayNext ==
    \/ SetLCD
    \/ OepWrite

DisplaySpec == DisplayInit /\ [][DisplayNext]_vars

\* ---------------------------------------------------- the refresh routine
\* The backlight routine of one open session, goroutine and timer included:
\* a client calls SetBacklightColour, ResetBacklightColour and Close one after
\* the other while the goroutines newRoutine started run beside it.

\* Ticks the timers deliver in one run.
MaxTicks == 2

\* routine.go:14-17   a routine as newRoutine leaves it: stopChan open, no
\* tick waiting, the goroutine at its select.
NewTask == [stopped |-> FALSE, tick |-> FALSE, at |-> "select", late |-> FALSE]

Tasks == 1..Len(task)

TaskInit ==
    /\ InitCommon
    /\ pc = "routine"
    /\ phase = "routine"
    /\ InputIdle
    /\ LcdIdle
    /\ task = <<>>
    /\ held = 0
    /\ handle = "open"
    /\ cpc = "idle"
    /\ lastXfer = "none"
    /\ resetDone = FALSE
    /\ ticks = 0

\* lcd.go:56-71   SetBacklightColour: the first transfer, then newRoutine,
\* stored over whatever d.routines.colour held.
TaskSetBacklightColour ==
    /\ proc = "running" /\ cpc = "idle" /\ Len(task) < MaxRoutines
    /\ IF handle # "open"
       THEN /\ Panic("nil_dereference", Main, "dev.Control", NoSession,
                     "SetBacklightColour")
            /\ UNCHANGED <<task, held, lastXfer, resetDone>>
       ELSE /\ NoPanic
            /\ \E o \in TransferOutcomes :
                 IF o = "ok"
                 THEN /\ task' = Append(task, NewTask)
                      /\ held' = Len(task) + 1
                      /\ lastXfer' = "call_set"
                      /\ resetDone' = FALSE
                 ELSE /\ lastXfer' = IF o = "short" THEN "call_set" ELSE lastXfer
                      /\ UNCHANGED <<task, held, resetDone>>
    /\ UNCHANGED <<handle, cpc, ticks>>
    /\ UNCHANGED <<pc, phase, nsess, sess, usb, rts, closef, closed, hst, dev,
                   vkb, vjs, kbState, jsState, consecutiveReadErrors, lastRead,
                   it, hist, inputVars, lcdVars>>

\* lcd.go:75 or device.go:112-118   the client calls ResetBacklightColour, or
\* Close, which calls it while d.dev is not nil and returns at once otherwise.
TaskCall ==
    /\ proc = "running" /\ cpc = "idle"
    /\ \E call \in {"reset", "close"} :
         cpc' = IF call = "close" /\ handle # "open" THEN "idle"
                ELSE call \o "_stop"
    /\ resetDone' = (resetDone /\ cpc' = "idle")
    /\ NoPanic
    /\ UNCHANGED <<task, held, handle, lastXfer, ticks>>
    /\ UNCHANGED <<pc, phase, nsess, sess, usb, rts, closef, closed, hst, dev,
                   vkb, vjs, kbState, jsState, consecutiveReadErrors, lastRead,
                   it, hist, inputVars, lcdVars>>

\* lcd.go:76-79   the routine held is stopped (close(r.stopChan)) and the
\* field cleared.
TaskResetStop ==
    /\ proc = "running" /\ cpc \in {"reset_stop", "close_stop"}
    /\ task' = IF held = 0 THEN task ELSE [task EXCEPT ![held].stopped = TRUE]
    /\ held' = 0
    /\ cpc' = IF cpc = "reset_stop" THEN "reset_xfer" ELSE "close_xfer"
    /\ NoPanic
    /\ UNCHANGED <<handle, lastXfer, resetDone, ticks>>
    /\ UNCHANGED <<pc, phase, nsess, sess, usb, rts, closef, closed, hst, dev,
                   vkb, vjs, kbState, jsState, consecutiveReadErrors, lastRead,
                   it, hist, inputVars, lcdVars>>

\* lcd.go:81   setBacklightColour(0, 0, 0); ResetBacklightColour returns, or
\* Close goes on to its releases.
TaskResetTransfer ==
    /\ proc = "running" /\ cpc \in {"reset_xfer", "close_xfer"}
    /\ IF handle # "open"
       THEN /\ Panic("nil_dereference", Main, "dev.Control", NoSession,
                     "ResetBacklightColour")
            /\ UNCHANGED <<cpc, lastXfer, resetDone>>
       ELSE /\ NoPanic
            /\ \E o \in TransferOutcomes :
                 lastXfer' = IF o = "err" THEN lastXfer ELSE "call_off"
            /\ cpc' = IF cpc = "reset_xfer" THEN "idle" ELSE "close_release"
            /\ resetDone' = (cpc = "reset_xfer")
    /\ UNCHANGED <<task, held, handle, ticks>>
    /\ UNCHANGED <<pc, phase, nsess, sess, usb, rts, closef, closed, hst, dev,
                   vkb, vjs, kbState, jsState, consecutiveReadErrors, lastRead,
                   it, hist, inputVars, lcdVars>>

\* device.go:126-158   Close's deferred functions: the handle is closed and
\* d.dev set to nil; Close returns.
TaskCloseRelease ==
    /\ proc = "running" /\ cpc = "close_release"
    /\ handle' = "closed"
    /\ cpc' = "idle"
    /\ resetDone' = TRUE
    /\ NoPanic
    /\ UNCHANGED <<task, held, lastXfer, ticks>>
    /\ UNCHANGED <<pc, phase, nsess, sess, usb, rts, closef, closed, hst, dev,
                   vkb, vjs, kbState, jsState, consecutiveReadErrors, lastRead,
                   it, hist, inputVars, lcdVars>>

\* routine.go:16   time.Tick: the timer puts a tick into the channel of
\* routine k, which holds one; it ticks on whether or not k was stopped.
TimerTick(k) ==
    /\ proc = "running" /\ ticks < MaxTicks
    /\ ~task[k].tick /\ task[k].at # "returned"
    /\ task' = [task EXCEPT ![k].tick = TRUE]
    /\ ticks' = ticks + 1
    /\ NoPanic
    /\ UNCHANGED <<held, handle, cpc, lastXfer, resetDone>>
    /\ UNCHANGED <<pc, phase, nsess, sess, usb, rts, closef, closed, hst, dev,
                   vkb, vjs, kbState, jsState, consecutiveReadErrors, lastRead,
                   it, hist, inputVars, lcdVars>>

\* routine.go:20-24   the select of routine k.  A case is taken when its
\* channel is ready; with both ready Go takes either.
SelectReady(r) ==
    {c \in {"stop", "tick"} :
        \/ c = "stop" /\ r.stopped
        \/ c = "tick" /\ r.tick}

\* routine.go:21-24   the goroutine of routine k leaves its select: it
\* returns, or takes the tick and begins fn().
Select(k) ==
    /\ proc = "running" /\ task[k].at = "select"
    /\ \E c \in SelectReady(task[k]) :
         task' = IF c = "stop"
                 THEN [task EXCEPT ![k].at = "returned"]
                 ELSE [task EXCEPT ![k].at = "fn", ![k].tick = FALSE,
                                   ![k].late = task[k].stopped]
    /\ NoPanic
    /\ UNCHANGED <<held, handle, cpc, lastXfer, resetDone, ticks>>
    /\ UNCHANGED <<pc, phase, nsess, sess, usb, rts, closef, closed, hst, dev,
                   vkb, vjs, kbState, jsState, consecutiveReadErrors, lastRead,
                   it, hist, inputVars, lcdVars>>

\* lcd.go:63-67   colourFn in routine k: d.setBacklightColour(r, g, b).  After
\* Close cleared d.dev without synchronisation the goroutine reads nil and
\* panics, or reads the old pointer and sends on the closed handle.
colourFn(k) ==
    /\ proc = "running" /\ task[k].at = "fn"
    /\ \/ /\ lastXfer' = "tick"
          /\ task' = [task EXCEPT ![k].at = "select"]
          /\ NoPanic
       \/ /\ handle # "open"
          /\ Panic("nil_dereference", k, "dev.Control", NoSession, "colourFn")
          /\ UNCHANGED <<task, lastXfer>>
    /\ UNCHANGED <<held, handle, cpc, resetDone, ticks>>
    /\ UNCHANGED <<pc, phase, nsess, sess, usb, rts, closef, closed, hst, dev,
                   vkb, vjs, kbState, jsState, consecutiveReadErrors, lastRead,
                   it, hist, inputVars, lcdVars>>

TaskNext ==
    \/ TaskSetBacklightColour
    \/ TaskCall
    \/ TaskResetStop
    \/ TaskResetTransfer
    \/ TaskCloseRelease
    \/ \E k \in Tasks : TimerTick(k)
    \/ \E k \in Tasks : Select(k)
    \/ \E k \in Tasks : colourFn(k)

TaskSpec == TaskInit /\ [][TaskNext]_vars

\* ----------------------------------------------------------- properties

\* The statements of Close and of what it calls at which a panic is raised.
CloseSites == {"colour.stop", "dev.Control", "oep.Write", "handle.Close"}

\* A panic inside a call of Close made by g13 or by an interrupt handler,
\* that is, on a session New had returned.
CrashedInClose ==
    /\ proc = "crashed"
    /\ crash.site \in CloseSites
    /\ crash.caller \in {"g13", "handler"}

\* C1: Close is safe under concurrent invocation: with the handler's Close and
\* the driver loop's Close interleaved on one session, no handle is released
\* twice, the backlight routine's stop is not requested twice, no nil handle
\* is used and nothing panics.
C1_ConcurrentCloseSafe ==
    /\ \A s \in Sessions : \A r \in Res : usb[s].rel[r] <= 1
    /\ \A s \in Sessions : \A k \in 1..Len(rts[s]) : rts[s][k] <= 1
    /\ ~CrashedInClose

\* C2: sequential idempotence of Close: a Close on a nil session, on a
\* never-opened session, or begun after a Close of the same session has
\* returned, performs no routine stop, no control transfer, no bulk write and
\* no release, and uses no handle (it does not panic).
C2_CloseIdempotent ==
    \A t \in Threads :
        LET f == closef[t]
        IN  (f.pc # "idle" /\ f.top = "Close"
                /\ (f.self = NoSession \/ f.fresh \/ f.after))
            => /\ f.ops = 0
               /\ ~(proc = "crashed" /\ crash.thread = t)

\* A second Close of an opened session has run to its return.
C2_Witness ==
    \E t \in Threads :
        LET f == closef[t]
        IN  /\ f.pc = "ret" /\ f.top = "Close"
            /\ f.self # NoSession /\ f.after /\ ~f.fresh
            /\ sess[f.self].oep
            /\ usb[f.self].rel["dev"] = 1

\* C3: Open leaks nothing on failure: when New returns its error, every
\* resource it had acquired, the USB context included, has been released.
C3_OpenLeaksNothing ==
    pc = "new_err" => \A r \in usb[nsess].acq : usb[nsess].rel[r] >= 1

\* C4: Close is safe on a partially-initialised session: the Close that New
\* calls on a failure path uses no unset handle and does not panic.
C4_CloseSafeOnPartialSession ==
    ~(proc = "crashed" /\ crash.caller = "New")

\* The step of the loop that handles a read that timed out, succeeded, or
\* failed.
TimeoutHandled == pc = "got" /\ lastRead = "timeout" /\ pc' # pc
SuccessHandled == pc = "got" /\ lastRead = "ok" /\ pc' # pc
ErrorHandled == pc = "got" /\ lastRead = "err" /\ pc' # pc

\* C5 as claimed: the counter is reset to 0 by every successful read and by
\* every read timeout, and is incremented only by a non-timeout read error.
C5_ResetOnSuccessAndTimeout ==
    [][/\ SuccessHandled => consecutiveReadErrors' = 0
       /\ TimeoutHandled => consecutiveReadErrors' = 0
       /\ consecutiveReadErrors' > consecutiveReadErrors => ErrorHandled]_vars

\* C5 as amended: the counter is reset to 0 by every successful read, is not
\* reset by a read timeout (which leaves it as it is), and is incremented,
\* by one, only by a non-timeout read error.
C5_ResetOnSuccessOnly ==
    [][/\ SuccessHandled => consecutiveReadErrors' = 0
       /\ TimeoutHandled => consecutiveReadErrors' = consecutiveReadErrors
       /\ consecutiveReadErrors' > consecutiveReadErrors
            => /\ ErrorHandled
               /\ consecutiveReadErrors' = consecutiveReadErrors + 1]_vars

\* A successful read has reset a counter that stood at 2.
C5_Witness ==
    /\ pc = "read" /\ lastRead = "ok" /\ it.delivered
    /\ it.c0 = 2 /\ consecutiveReadErrors = 0

\* C6: a read timeout leaves the counter unchanged: the loop goes back to the
\* read with the same counter and the same session and sinks, having neither
\* slept, nor reported a fault, nor delivered anything to the sinks.
C6_TimeoutOnlyLoops ==
    [][TimeoutHandled =>
         /\ pc' = "read"
         /\ consecutiveReadErrors' = consecutiveReadErrors
         /\ consecutiveReadErrors' = it.c0
         /\ ~it'.reported /\ ~it'.slept /\ ~it'.delivered
         /\ UNCHANGED <<dev, sinkVars, proc>>]_vars

\* A timeout has been handled while the counter stood at 1.
C6_Witness ==
    /\ pc = "read" /\ lastRead = "timeout"
    /\ consecutiveReadErrors = 1 /\ it.c0 = 1

\* C7: reinitialisation is triggered exactly when a non-timeout read error
\* raises the counter to 3.  Every read starts with the counter in {0, 1, 2};
\* the loop is in its backoff only with the counter at 1 or 2 and at
\* REINITIALIZING only with the counter at 3 and without having slept.
C7_Positions ==
    /\ pc \in {"read", "reading", "got"} => consecutiveReadErrors \in {0, 1, 2}
    /\ pc = "backoff" => consecutiveReadErrors \in {1, 2} /\ it.reported
    /\ pc = "reinit" => /\ consecutiveReadErrors = errorCounterThreshold
                        /\ it.reported /\ ~it.slept

\* An error that raises the counter to 1 or 2 goes to the backoff, the one
\* that raises it to 3 goes to REINITIALIZING; the backoff is followed by a
\* read on the same session; nothing else leads to REINITIALIZING.
C7_Steps ==
    /\ ErrorHandled =>
         \/ consecutiveReadErrors' \in {1, 2} /\ pc' = "backoff"
         \/ consecutiveReadErrors' = errorCounterThreshold /\ pc' = "reinit"
    /\ (pc = "backoff" /\ pc' # pc) =>
         pc' = "read" /\ it'.slept /\ UNCHANGED <<dev, consecutiveReadErrors>>
    /\ (pc' = "reinit" /\ pc # "reinit") => ErrorHandled

\* Once a non-timeout error has been counted, the loop reaches
\* REINITIALIZING unless a read ends otherwise than with such an error or the
\* process ends.
C7_Eventually ==
    (pc = "backoff") ~> (pc = "reinit" \/ lastRead # "err" \/ proc # "running")

C7_ReinitAtThreshold ==
    /\ []C7_Positions
    /\ [][C7_Steps]_vars
    /\ C7_Eventually

\* The third error in a row has taken the loop to REINITIALIZING.
C7_Witness ==
    /\ pc = "reinit" /\ consecutiveReadErrors = 3 /\ it.c0 = 2
    /\ proc = "running"

\* C8: a successful reinitialisation sets the counter to 0 and the loop reads
\* on the new session; a failed one is fatal: the loop stops and g13 returns
\* the initialisation error (it does not panic, and does not initialise
\* again).
C8_ReinitOutcome ==
    /\ (hist.reinitDone /\ pc = "read")
         => consecutiveReadErrors = 0 /\ dev = nsess /\ sess[dev].iep
    /\ hist.reinitFailed
         => /\ pc \in {"g13_defer", "g13_defer_kb", "in_call"}
            /\ ~(proc = "crashed" /\ crash.thread = Main)

\* C9: reinitialisation recreates only the device session and the keyboard
\* sink: the joystick sink in use after it is the instance in use before it,
\* still open, and no other joystick instance has been created.
C9_JoystickRetained ==
    (hist.reinitDone /\ pc = "read")
        => /\ vjs = hist.vjsBefore
           /\ jsState[vjs] = "open"
           /\ \A k \in Sessions : k # vjs => jsState[k] = "none"

\* C10: at most one backlight-refresh task is active per session, after any
\* sequence of SetBacklightColour, ResetBacklightColour and Close calls.
C10_AtMostOneRefreshTask ==
    \A s \in Sessions : Cardinality(ActiveRoutines(s)) <= 1

\* C11: the shutdown path closes the session before the process exits: when
\* a handler has called os.Exit, the Close of the session g13 is working on
\* has returned, and the cleanup has run once (one handler only has called
\* its cleanup).
C11_ShutdownClosesSession ==
    /\ Cardinality({s \in Sessions : hst[s] \in {"cleanup", "exit"}}) <= 1
    /\ (proc = "exit0" /\ dev # NoSession) => dev \in closed

\* C12: a read that races with or follows a Close of its session submits no
\* transfer on an endpoint whose handles have been released, has no transfer
\* in flight on one, and does not crash: it ends with data, with the timeout
\* or with an error.
C12_ReadNeverUsesReleasedHandle ==
    /\ pc = "reading" => EndpointLive(dev)
    /\ ~(proc = "crashed" /\ crash.site = "iep.ReadContext")

\* C13: Close releases interface, configuration, device handle and USB
\* context, in that order: once Close has returned on a session New had
\* opened, the releases made on it are exactly these four, in this order.
C13_CloseReleasesInOrder ==
    \A s \in closed :
        sess[s].oep => usb[s].log = <<"intf", "cfg", "dev", "ctx">>

\* The buffer of the frame has been built.
Encoded == lcdpc \in {"write", "nil", "err"} /\ vbitmap # <<>>

PixelBit(bm, p) == BitSet(bm[byteIdx(p) + LCDImageStartIdx], bitIdx(p))

\* C17: in the buffer built from a frame, the bit of a pixel is set exactly
\* when the pixel is not white.
C17_BitSetIffNonWhite ==
    Encoded =>
        \A p \in Positions \cap (DOMAIN img.pix \cup Corners) :
            PixelBit(vbitmap, p) <=> (At(img, p) # White)

\* The buffer C18 describes: byte 0 is 3 and each lit pixel (x, y) adds bit
\* y % 8 to byte 32 + (y / 8) * 160 + x.
RECURSIVE Painted(_, _)
Painted(bm, ps) ==
    IF ps = {} THEN bm
    ELSE LET p == CHOOSE e \in ps : TRUE
         IN  Painted([bm EXCEPT ![32 + (p[2] \div 8) * 160 + p[1]] =
                                    @ + 2 ^ (p[2] % 8)],
                     ps \ {p})

Lit(im) == {p \in DOMAIN im.pix : PixelOn(im.pix[p])}

\* C18: the buffer is 992 bytes long, byte 0 is 3, bytes 1..31 are 0, and a
\* lit pixel (x, y) is bit y % 8 of byte 32 + (y / 8) * 160 + x, which lies
\* in 32..991; distinct pixels have distinct bits, so the buffer is the sum
\* of the bits of the lit pixels.
C18_Layout ==
    Encoded =>
        /\ DOMAIN vbitmap = 0..991
        /\ vbitmap[0] = 3
        /\ \A i \in 1..31 : vbitmap[i] = 0
        /\ \A p \in Lit(img) : 32 + (p[2] \div 8) * 160 + p[1] \in 32..991
        /\ vbitmap = Painted([i \in 0..991 |-> IF i = 0 THEN 3 ELSE 0], Lit(img))

\* A frame with the two corners lit was encoded: (0,0) is bit 0 of byte 32
\* and (159,42) is bit 2 of byte 991.
C18_Witness ==
    /\ Encoded
    /\ Lit(img) = {<<0, 0>>, <<159, 42>>}
    /\ vbitmap[32] = 1 /\ vbitmap[991] = 4

\* C19: for a frame whose bounds are not (0,0)-(160,43) SetLCD returns an
\* error without a write; for any other frame it makes exactly one write, of
\* 992 bytes, and returns an error if the write failed or was short.
C19_SetLCDWrites ==
    /\ ~(img.min = <<0, 0>> /\ img.max = <<160, 43>>) =>
          writes = <<>> /\ lcdpc \in {"idle", "call", "err"}
    /\ (lcdpc \in {"nil", "err"} /\ img.min = <<0, 0>> /\ img.max = <<160, 43>>) =>
          /\ Len(writes) = 1
          /\ writes[1].len = 992
          /\ (writes[1].err \/ writes[1].n # 992) => lcdpc = "err"

\* SetLCD returned an error after a short write of a well-formed frame.
C19_Witness ==
    /\ lcdpc = "err"
    /\ Len(writes) = 1
    /\ ~writes[1].err /\ writes[1].n = 991


\* C20: SetBacklightColour starts the refresh task only after a successful
\* first transfer: a call whose first transfer fails (an error or a short
\* transfer) returns the error, starts no task and leaves the tasks that are
\* there and the rest of the session as they were.
C20_NoTaskOnFailedTransfer ==
    [][(pc \in ApiIdle /\ pc' = "api_err") => UNCHANGED <<sess, usb, rts, closed>>]_vars

\* SetBacklightColour has returned an error on a session whose refresh task
\* is running.
C20_Witness ==
    /\ pc = "api_err" /\ dev # NoSession
    /\ ActiveRoutines(dev) # {}
    /\ sess[dev].colour \in ActiveRoutines(dev)

\* A call of handleInput has returned.
Handled == hpc = "idle" /\ reports # <<>>

LastBatch == kbEvents[Len(kbEvents)]

Event(action, code) == [action |-> action, code |-> code]

C15_OneEventPerMappedKey ==
    \A n \in 1..Len(kbEvents) :
        (n < Len(kbEvents) \/ hpc = "idle") =>
            kbEvents[n] =
                SetToBag({Event(IF Bit(reports[n], k) THEN "down" ELSE "up",
                                g13cfg.mapping[k]) : k \in DOMAIN g13cfg.mapping})

\* A report was handled in which one mapped key is held, the other mapped key
\* is not, and a key that is not mapped is held.
C15_Witness ==
    /\ Handled
    /\ DOMAIN g13cfg.mapping = {KeyA, KeyB}
    /\ Bit(input, KeyA) /\ ~Bit(input, KeyB) /\ Bit(input, KeyC)

\* The scenario: KeyA mapped to 30 and KeyB to 48, and the reports with
\* KeyA held, then KeyA and KeyB held, then nothing held, all handled.
C16_Scenario ==
    /\ hpc = "idle"
    /\ g13cfg.mapping = (KeyA :> 30 @@ KeyB :> 48)
    /\ reports = <<KeyWord({KeyA}), KeyWord({KeyA, KeyB}), KeyWord({})>>

\* C16 as stated: in the scenario the keyboard sink gets key-down(30), then
\* key-down(48), then key-up(30) and key-up(48).
C16_ScenarioEdges ==
    C16_Scenario =>
        kbEvents = <<SetToBag({Event("down", 30)}),
                     SetToBag({Event("down", 48)}),
                     SetToBag({Event("up", 30), Event("up", 48)})>>

\* C16: in the scenario the keyboard sink gets key-down(30) and key-up(48)
\* for the first report, key-down(30) and key-down(48) for the second, and
\* key-up(30) and key-up(48) for the third.
C16_ScenarioLevels ==
    C16_Scenario =>
        kbEvents = <<SetToBag({Event("down", 30), Event("up", 48)}),
                     SetToBag({Event("down", 30), Event("down", 48)}),
                     SetToBag({Event("up", 30), Event("up", 48)})>>

\* The three reports of the scenario were handled with a stick call each.
C16_Witness ==
    /\ C16_Scenario
    /\ g13cfg.joystick /\ Len(stickEvents) = MaxReports

\* C21: SetTimeout on a session that has been closed returns an error and
\* leaves the timeout as it was, so the timeout of a closed session never
\* changes (on a nil session it returns an error too; on an open one it
\* stores the new timeout).
C21_ClosedTimeoutKept ==
    [][\A s \in closed : sess'[s].timeout = sess[s].timeout]_vars

\* C23: a second stop() on a routine that was stopped already has no effect:
\* it does not panic, so the process never ends on the close of a closed
\* channel.
C23_StopIdempotent ==
    ~(proc = "crashed" /\ crash.kind = "close_of_closed_channel")

\* C22: once stop() has returned, routine k begins no further fn(), also
\* when a tick was waiting at the moment of the stop.
C22_NoInvocationAfterStop ==
    \A k \in Tasks : ~task[k].late

\* C24: after ResetBacklightColour or Close has returned, the transfer of
\* (0,0,0) stays the last backlight transfer until the next call: no tick
\* sends one after it, and no tick uses d.dev once Close has released it.
C24_ResetTransferIsLast ==
    /\ resetDone => lastXfer # "tick"
    /\ ~(proc = "crashed" /\ crash.caller = "colourFn")

\* C25: when the reinitialisation fails, g13's deferred function runs to its
\* end: it calls Close neither on a nil session nor on a nil keyboard, so the
\* process does not panic there.
C25_ExitPathCompletes ==
    ~(proc = "crashed"
        /\ crash.site \in {"g13.defer dev.Close", "g13.defer vkb.Close"})

\* C26: when initialise returns an error for a step that failed after
\* device.New succeeded, the session of that call has been closed, none of
\* its refresh routines is active, and the keyboard and the joystick opened
\* in that call are closed, at INIT and at REINITIALIZING alike.
C26_InitialiseAllOrNothing ==
    (pc = "init_err" /\ hst[nsess] # "none") =>
        /\ nsess \in closed
        /\ ActiveRoutines(nsess) = {}
        /\ kbState[nsess] # "open"
        /\ jsState[nsess] # "open"

=============================================================================
